---------------------------- MODULE Spec2Model ----------------------------
(***************************************************************************)
(* Model of cvxpy/problems/solvers/scs_mat_free_intf.py: the SCS_MAT_FREE  *)
(* solver interface (get_problem_data, solve, format_results) together     *)
(* with the parts of cvxpy.settings, cvxpy.problems.iterative and          *)
(* cvxpy.lin_ops.tree_mat that it calls.                                   *)
(*                                                                         *)
(* Python dicts are functions whose DOMAIN is the set of keys present.     *)
(* Vectors are sequences of integers.  A mutable array is a reference      *)
(* into `heap`.                                                            *)
(***************************************************************************)
EXTENDS Integers, Sequences, FiniteSets, TLC

VARIABLES
    op,            \* the last operation performed ("init" before the call)
    call_args,     \* the arguments of the call the caller makes
    calls,         \* the number of solve calls made
    solver_opts,   \* the caller's solver_opts mapping (the object the caller holds)
    solver_call,   \* what mat_free_scs.solve received in the last solve
    prev_opts,     \* the options of the solve before it, when it used the same mapping
    bundle,        \* what a direct call of get_problem_data returned
    results_dict,  \* the raw output of the external solver
    heap,          \* contents of the mutable arrays, by reference
    new_results,   \* the local new_results of format_results when it exited
    ret,           \* the record the last call returned to the caller
    exc            \* the exception the last call raised, or NoExc

vars == <<op, call_args, calls, solver_opts, solver_call, prev_opts,
          bundle, results_dict, heap, new_results, ret, exc>>

(***************************************************************************)
(* Bounds of the model.                                                    *)
(***************************************************************************)
MaxLen == 3        \* longest dual vector y the external solver returns
MaxTime == 1       \* largest solveTime, setupTime and cgIter
MaxObj == 1        \* largest pobj and objective offset
MaxConst == 1      \* largest constant of an expression tree
MaxKeys == 2       \* most keys of a mapping the caller passes as solver_opts
MaxCalls == 2      \* most solve calls a caller makes with one mapping

(***************************************************************************)
(* Python dict and list primitives.                                        *)
(***************************************************************************)
EmptyDict == <<>>

Absent == <<>>

IsPresent(d) == DOMAIN d # {}

\* d[k] = v
Put(d, k, v) == [x \in (DOMAIN d) \cup {k} |-> IF x = k THEN v ELSE d[x]]

\* d.get(k, default)
Get(d, k, default) == IF k \in DOMAIN d THEN d[k] ELSE default

Min2(a, b) == IF a < b THEN a ELSE b

Max2(a, b) == IF a > b THEN a ELSE b

\* Python's normalisation of a slice bound i for a sequence of length n
\* (0-based; negative bounds count from the end, all bounds are clipped).
SliceBound(i, n) == IF i < 0 THEN Max2(i + n, 0) ELSE Min2(i, n)

\* seq[lo:hi] with 0-based bounds
PySlice(seq, lo, hi) ==
    LET a == SliceBound(lo, Len(seq))
        b == SliceBound(hi, Len(seq))
    IN  IF a >= b THEN <<>> ELSE SubSeq(seq, a + 1, b)

\* seq[lo:]
PySliceFrom(seq, lo) == PySlice(seq, lo, Len(seq))

(***************************************************************************)
(* cvxpy.settings: result keys, canonical statuses, the SCS status table.  *)
(***************************************************************************)
STATUS == "status"
SOLVE_TIME == "solve_time"
CG_ITERS == "CG_ITERS"
VALUE == "value"
PRIMAL == "primal"
EQ_DUAL == "eq_dual"
INEQ_DUAL == "ineq_dual"

OPTIMAL == "optimal"
OPTIMAL_INACCURATE == "optimal_inaccurate"
INFEASIBLE == "infeasible"
UNBOUNDED == "unbounded"
SOLVER_ERROR == "solver_error"

SOLUTION_PRESENT == {OPTIMAL, OPTIMAL_INACCURATE}

\* s.SOLVER_STATUS[s.SCS]
SOLVER_STATUS_SCS ==
    [c \in {"Solved", "Solved/Inaccurate", "Infeasible", "Unbounded", "Failure"} |->
        CASE c = "Solved" -> OPTIMAL
          [] c = "Solved/Inaccurate" -> OPTIMAL_INACCURATE
          [] c = "Infeasible" -> INFEASIBLE
          [] c = "Unbounded" -> UNBOUNDED
          [] OTHER -> SOLVER_ERROR]

NoExc == "none"
KeyError == "KeyError"

(***************************************************************************)
(* SCS_MAT_FREE.format_results, statement by statement.                    *)
(***************************************************************************)
\* line 140: the subscript of the status table; fails when the code is no key
fr_status_known(results_dict_) ==
    results_dict_["info"]["status"] \in DOMAIN SOLVER_STATUS_SCS

fr_status(results_dict_) == SOLVER_STATUS_SCS[results_dict_["info"]["status"]]

\* lines 142-143
fr_solve_time(results_dict_) ==
    results_dict_["info"]["solveTime"] + results_dict_["info"]["setupTime"]

\* line 144
fr_cg_iters(results_dict_) == results_dict_["info"]["cgIter"]

\* faulty variant of line 145: the solution fields are written whatever the status
fr_solution_present_always(new_results_) == TRUE

\* line 145
fr_solution_present(new_results_) == new_results_[STATUS] \in SOLUTION_PRESENT

\* lines 146-147
fr_value(results_dict_, obj_offset) == results_dict_["info"]["pobj"] + obj_offset

\* line 148: the array object itself is stored, not a copy of it
fr_primal(results_dict_) == results_dict_["x"]

\* line 149
fr_eq_dual(results_dict_, dims) == PySlice(results_dict_["y"], 0, dims["f"])

\* faulty variant of line 150: the inequality dual starts one entry late
fr_ineq_dual_late(results_dict_, dims) == PySliceFrom(results_dict_["y"], dims["f"] + 1)

\* line 150
fr_ineq_dual(results_dict_, dims) == PySliceFrom(results_dict_["y"], dims["f"])

\* lines 145-150
fr_solution(r3, results_dict_, dims, obj_offset) ==
    IF fr_solution_present(r3)
    THEN LET r4 == Put(r3, VALUE, fr_value(results_dict_, obj_offset))
             r5 == Put(r4, PRIMAL, fr_primal(results_dict_))
             r6 == Put(r5, EQ_DUAL, fr_eq_dual(results_dict_, dims))
             r7 == Put(r6, INEQ_DUAL, fr_ineq_dual(results_dict_, dims))
         IN  r7
    ELSE r3

\* The outcome of a call: the exception raised (NoExc when it returned), the
\* local new_results at exit, and the value returned (Absent when it raised).
Outcome(e, locals, value) == [exc |-> e, new_results |-> locals, ret |-> value]

\* faulty variant of lines 139-152: the status is looked up with dict.get, so
\* an unknown code yields the status "None" and a record is returned
format_results_get(results_dict_, dims, obj_offset) ==
    LET status == IF fr_status_known(results_dict_) THEN fr_status(results_dict_) ELSE "None"
        r1 == Put(EmptyDict, STATUS, status)
        r2 == Put(r1, SOLVE_TIME, fr_solve_time(results_dict_))
        r3 == Put(r2, CG_ITERS, fr_cg_iters(results_dict_))
        r7 == fr_solution(r3, results_dict_, dims, obj_offset)
    IN  Outcome(NoExc, r7, r7)

\* lines 139-152
format_results(results_dict_, dims, obj_offset) ==
    LET r0 == EmptyDict
    IN  IF ~fr_status_known(results_dict_)
        THEN Outcome(KeyError, r0, Absent)
        ELSE LET r1 == Put(r0, STATUS, fr_status(results_dict_))
                 r2 == Put(r1, SOLVE_TIME, fr_solve_time(results_dict_))
                 r3 == Put(r2, CG_ITERS, fr_cg_iters(results_dict_))
                 r7 == fr_solution(r3, results_dict_, dims, obj_offset)
             IN  Outcome(NoExc, r7, r7)

\* the default of the parameter obj_offset (line 122)
DefaultObjOffset == 0

\* an optional argument of a call: NoArg when the call leaves it out
NoArg == <<>>

Arg(v) == <<v>>


(***************************************************************************)
(* Vectors.                                                                *)
(***************************************************************************)
Zeros(n) == [i \in 1..n |-> 0]

VAdd(u, v) == [i \in 1..Len(u) |-> u[i] + v[i]]

VNeg(u) == [i \in 1..Len(u) |-> 0 - u[i]]

VScale(k, u) == [i \in 1..Len(u) |-> k * u[i]]

RECURSIVE Dot(_, _)
Dot(u, v) == IF Len(u) = 0 \/ Len(v) = 0 THEN 0
             ELSE u[1] * v[1] + Dot(Tail(u), Tail(v))

\* the vectors of length n with entries in S
Vectors(n, S) == [1..n -> S]

(***************************************************************************)
(* cvxpy.lin_ops: the nodes of a canonicalized expression tree.  `size` is *)
(* (rows, cols); `data` is the constant's value, the scalar coefficient of *)
(* a multiplication or the (start, stop) of an index; `id` names the       *)
(* variable of a variable node.                                            *)
(***************************************************************************)
VARIABLE_ == "variable"
DENSE_CONST == "dense_const"
NO_OP == "no_op"
SUM == "sum"
NEG == "neg"
MUL == "mul"
INDEX == "index"

LinOp(type, size, args, data, id) ==
    [type |-> type, size |-> size, args |-> args, data |-> data, id |-> id]

Rows(size) == size[1] * size[2]

\* the variables of the problems of the model, their sizes and offsets in x
var_sizes == [v \in {"v0", "v1"} |-> IF v = "v0" THEN <<1, 1>> ELSE <<2, 1>>]

var_offsets == [v \in {"v0", "v1"} |-> IF v = "v0" THEN 0 ELSE 1]

x_length == Rows(var_sizes["v0"]) + Rows(var_sizes["v1"])

Variable(id) == LinOp(VARIABLE_, var_sizes[id], <<>>, <<>>, id)

Const(c, n) == LinOp(DENSE_CONST, <<n, 1>>, <<>>, [i \in 1..n |-> c], "")

NegExpr(e) == LinOp(NEG, e.size, <<e>>, <<>>, "")

MulExpr(k, e) == LinOp(MUL, e.size, <<e>>, <<k>>, "")

SumExpr(a, b) == LinOp(SUM, a.size, <<a, b>>, <<>>, "")

\* rows start..stop-1 (0-based) of e
IndexExpr(e, start, stop) == LinOp(INDEX, <<stop - start, 1>>, <<e>>, <<start, stop>>, "")

(***************************************************************************)
(* cvxpy.lin_ops.tree_mat: mul, tmul, sum_dicts, prune_constants.          *)
(***************************************************************************)
\* op_mul: the forward rule of an operator node, given its evaluated arguments
op_mul(lin_op, eval_args) ==
    CASE lin_op.type = DENSE_CONST -> lin_op.data
      [] lin_op.type = SUM ->
            IF Len(eval_args) = 0 THEN Zeros(Rows(lin_op.size))
            ELSE IF Len(eval_args) = 1 THEN eval_args[1]
            ELSE VAdd(eval_args[1], eval_args[2])
      [] lin_op.type = NEG -> VNeg(eval_args[1])
      [] lin_op.type = MUL -> VScale(lin_op.data[1], eval_args[1])
      [] lin_op.type = INDEX ->
            SubSeq(eval_args[1], lin_op.data[1] + 1, lin_op.data[2])
      [] OTHER -> Zeros(Rows(lin_op.size))

\* mul: the value of the tree at the variable values val_dict; a variable
\* without a value counts as zero
RECURSIVE mul(_, _)
mul(lin_op, val_dict) ==
    IF lin_op.type = VARIABLE_
    THEN IF lin_op.id \in DOMAIN val_dict THEN val_dict[lin_op.id]
         ELSE Zeros(Rows(lin_op.size))
    ELSE IF lin_op.type = NO_OP THEN Zeros(Rows(lin_op.size))
    ELSE op_mul(lin_op, [i \in 1..Len(lin_op.args) |-> mul(lin_op.args[i], val_dict)])

\* op_tmul: the adjoint rule of an operator node
op_tmul(lin_op, value) ==
    CASE lin_op.type = SUM -> value
      [] lin_op.type = NEG -> VNeg(value)
      [] lin_op.type = MUL -> VScale(lin_op.data[1], value)
      [] lin_op.type = INDEX ->
            [i \in 1..Rows(lin_op.args[1].size) |->
                IF i > lin_op.data[1] /\ i <= lin_op.data[2]
                THEN value[i - lin_op.data[1]] ELSE 0]
      [] OTHER -> value

\* sum_dicts of two dicts: values of repeated ids are added
sum_dicts(d1, d2) ==
    [k \in (DOMAIN d1) \cup (DOMAIN d2) |->
        IF k \in DOMAIN d1 /\ k \in DOMAIN d2 THEN VAdd(d1[k], d2[k])
        ELSE IF k \in DOMAIN d1 THEN d1[k] ELSE d2[k]]

\* tmul: the tree's transpose applied to value, as a dict variable id -> vector
RECURSIVE tmul(_, _)
RECURSIVE tmul_args(_, _, _)
tmul_args(args, result, i) ==
    IF i > Len(args) THEN EmptyDict
    ELSE sum_dicts(tmul(args[i], result), tmul_args(args, result, i + 1))

tmul(lin_op, value) ==
    IF lin_op.type = VARIABLE_ THEN Put(EmptyDict, lin_op.id, value)
    ELSE IF lin_op.type = NO_OP THEN EmptyDict
    ELSE tmul_args(lin_op.args, op_tmul(lin_op, value), 1)

\* prune_expr: [is_constant, expr], expr being lin_op with its constant
\* arguments removed
RECURSIVE prune_expr(_)
RECURSIVE prune_args(_, _)
prune_args(args, i) ==
    IF i > Len(args) THEN <<>>
    ELSE LET p == prune_expr(args[i])
         IN  (IF p.is_constant THEN <<>> ELSE <<p.expr>>) \o prune_args(args, i + 1)

prune_expr(lin_op) ==
    IF lin_op.type = VARIABLE_ THEN [is_constant |-> FALSE, expr |-> lin_op]
    ELSE IF lin_op.type = DENSE_CONST THEN [is_constant |-> TRUE, expr |-> lin_op]
    ELSE LET pruned_args == prune_args(lin_op.args, 1)
         IN  [is_constant |-> Len(pruned_args) = 0,
              expr |-> [lin_op EXCEPT !.args = pruned_args]]

\* a constraint of the canonicalized problem
Constr(expr, size) == [expr |-> expr, size |-> size]

\* prune_constants: every constraint with its constants removed, a constant
\* root replaced by a NO_OP of the same size
prune_constants(constraints_) ==
    [i \in 1..Len(constraints_) |->
        LET p == prune_expr(constraints_[i].expr)
        IN  Constr(IF p.is_constant
                   THEN LinOp(NO_OP, constraints_[i].expr.size, <<>>, <<>>, "")
                   ELSE p.expr,
                   constraints_[i].size)]

(***************************************************************************)
(* cvxpy.problems.iterative: constr_mul, constr_unpack, constr_tmul,       *)
(* vec_to_dict, dict_to_vec and the closures of get_mul_funcs.             *)
(***************************************************************************)
\* the values of the constraints stacked in constraint order, in a vector
\* of vec_size rows
RECURSIVE constr_stack(_, _, _)
constr_stack(constraints_, var_dict, i) ==
    IF i > Len(constraints_) THEN <<>>
    ELSE mul(constraints_[i].expr, var_dict) \o constr_stack(constraints_, var_dict, i + 1)

constr_mul(constraints_, var_dict, vec_size) ==
    LET stacked == constr_stack(constraints_, var_dict, 1)
    IN  [i \in 1..vec_size |-> IF i <= Len(stacked) THEN stacked[i] ELSE 0]

\* the slice of x holding each variable
vec_to_dict(x, offsets, sizes) ==
    [v \in DOMAIN offsets |-> SubSeq(x, offsets[v] + 1, offsets[v] + Rows(sizes[v]))]

\* the vector of x_len rows holding each variable's value at its offset
dict_to_vec(val_dict, offsets, sizes, x_len) ==
    [i \in 1..x_len |->
        LET hit == {v \in DOMAIN val_dict :
                        i > offsets[v] /\ i <= offsets[v] + Rows(sizes[v])}
        IN  IF hit = {} THEN 0
            ELSE LET v == CHOOSE w \in hit : TRUE IN val_dict[v][i - offsets[v]]]

\* the sum over the constraints of tmul of the constraint's rows of y
RECURSIVE constr_tmul(_, _, _, _)
constr_tmul(constraints_, y, i, offset) ==
    IF i > Len(constraints_) THEN EmptyDict
    ELSE LET rows == Rows(constraints_[i].size)
         IN  sum_dicts(tmul(constraints_[i].expr, SubSeq(y, offset + 1, offset + rows)),
                       constr_tmul(constraints_, y, i + 1, offset + rows))

\* what the closures of get_mul_funcs capture, all four the same: the layout
\* of the variables in x, the constraints and the number of rows
Closure(sym_data, constraints_, rows) ==
    [var_offsets |-> sym_data.var_offsets, var_sizes |-> sym_data.var_sizes,
     x_length |-> sym_data.x_length, constraints |-> constraints_, rows |-> rows]

\* Amul(x): the stacked constraint values at x
Amul(f, x) ==
    constr_mul(f.constraints, vec_to_dict(x, f.var_offsets, f.var_sizes), f.rows)

\* ATmul(y): the adjoint of Amul at y
ATmul(f, y) ==
    dict_to_vec(constr_tmul(f.constraints, y, 1, 0), f.var_offsets, f.var_sizes, f.x_length)

(***************************************************************************)
(* SCS_MAT_FREE.get_problem_data.                                          *)
(***************************************************************************)
EQ == "eq"
LEQ == "leq"

\* Solver.get_sym_data: the symbolic data cached for this solver
get_sym_data(objective, constraints_, cached_data) == cached_data["sym_data"]

\* matrix_data.get_objective(): the coefficient vector and the constant term
get_objective(objective) == [c |-> objective.c, offset |-> objective.offset]

\* line 70
gpd_all_ineq(sym_data) == sym_data.constr_map[EQ] \o sym_data.constr_map[LEQ]

\* line 71
RECURSIVE gpd_A_rows(_)
gpd_A_rows(all_ineq) ==
    IF Len(all_ineq) = 0 THEN 0
    ELSE all_ineq[1].size[1] * all_ineq[1].size[2] + gpd_A_rows(Tail(all_ineq))

\* faulty variant of line 72: b is computed after the pruning, from the
\* pruned constraints
gpd_b_pruned(all_ineq, A_rows) ==
    VNeg(constr_mul(prune_constants(all_ineq), EmptyDict, A_rows))

\* line 72
gpd_b(all_ineq, A_rows) == VNeg(constr_mul(all_ineq, EmptyDict, A_rows))

\* line 75: a matrix of zeros, of which only the shape is modelled
gpd_A(A_rows, sym_data) == [shape |-> <<A_rows, sym_data.x_length>>]

\* faulty variant of line 78: the constants are not pruned
gpd_constraints_unpruned(all_ineq) == all_ineq

\* line 78
gpd_constraints(all_ineq) == prune_constants(all_ineq)

\* line 79: what the four closures capture
gpd_mul_funcs(sym_data, constraints_, A_rows) ==
    Closure(sym_data, constraints_, A_rows)

\* lines 66-84
get_problem_data(objective, constraints_, cached_data) ==
    LET sym_data == get_sym_data(objective, constraints_, cached_data)
        obj == get_objective(objective)
        all_ineq == gpd_all_ineq(sym_data)
        A_rows == gpd_A_rows(all_ineq)
        b == gpd_b(all_ineq, A_rows)
        pruned == gpd_constraints(all_ineq)
        funcs == gpd_mul_funcs(sym_data, pruned, A_rows)
        data == [c |-> obj.c, A |-> gpd_A(A_rows, sym_data), b |-> b,
                 Amul |-> "Amul", ATmul |-> "ATmul", getDE |-> "getDE", getM |-> "getM"]
    IN  [data |-> data, captured |-> funcs, dims |-> sym_data.dims, offset |-> obj.offset]

(***************************************************************************)
(* SCS_MAT_FREE.solve.                                                     *)
(***************************************************************************)
DefaultEquilP == 2        \* line 115
DefaultSamples == 25      \* line 117

\* faulty variant of lines 111-118: use_indirect is a default like the rest
solve_opts_default(solver_opts_, verbose) ==
    LET o1 == Put(solver_opts_, "use_indirect", Get(solver_opts_, "use_indirect", TRUE))
        o2 == Put(o1, "verbose", verbose)
        o3 == Put(o2, "equil_p", Get(o2, "equil_p", DefaultEquilP))
        o4 == Put(o3, "stoch", Get(o3, "stoch", FALSE))
        o5 == Put(o4, "samples", Get(o4, "samples", DefaultSamples))
        o6 == Put(o5, "precond", Get(o5, "precond", TRUE))
    IN  o6

\* lines 111-118: the contents of solver_opts when mat_free_scs.solve is called
solve_opts(solver_opts_, verbose) ==
    LET o1 == Put(solver_opts_, "use_indirect", TRUE)
        o2 == Put(o1, "verbose", verbose)
        o3 == Put(o2, "equil_p", Get(o2, "equil_p", DefaultEquilP))
        o4 == Put(o3, "stoch", Get(o3, "stoch", FALSE))
        o5 == Put(o4, "samples", Get(o4, "samples", DefaultSamples))
        o6 == Put(o5, "precond", Get(o5, "precond", TRUE))
    IN  o6

\* faulty variant: solve works on a copy, the caller's mapping stays as it was
solve_caller_mapping_copy(solver_opts_, verbose) == solver_opts_

\* lines 111-118 assign into the parameter solver_opts, which is the caller's
\* own dict: the contents of the caller's mapping after the call
solve_caller_mapping(solver_opts_, verbose) == solve_opts(solver_opts_, verbose)

\* line 119: the arguments mat_free_scs.solve receives
solve_call(gpd, opts) ==
    [data |-> gpd.data, captured |-> gpd.captured, dims |-> gpd.dims, opts |-> opts]

\* faulty variant of line 120: format_results is called without the offset
solve_obj_offset_dropped(gpd) == DefaultObjOffset

\* line 120: the objective offset handed to format_results
solve_obj_offset(gpd) == gpd.offset

\* lines 107-119, up to the call of the external solver: the problem data,
\* the caller's mapping as the call leaves it, and what the solver receives
solve_prepare(objective, constraints_, cached_data, verbose, solver_opts_) ==
    LET gpd == get_problem_data(objective, constraints_, cached_data)
    IN  [gpd |-> gpd,
         mapping |-> solve_caller_mapping(solver_opts_, verbose),
         call |-> solve_call(gpd, solve_opts(solver_opts_, verbose))]

\* line 120, given the raw output the external solver returned
solve_finish(prepared, raw) ==
    format_results(raw, prepared.gpd.dims, solve_obj_offset(prepared.gpd))

(***************************************************************************)
(* The inputs of the model: expression trees, problems, option mappings    *)
(* and raw outputs of the external solver.                                 *)
(***************************************************************************)
Coeffs == {2}

Atoms(n) ==
    IF n = 1
    THEN {Variable("v0")} \cup {Const(c, 1) : c \in 1..MaxConst}
         \cup {IndexExpr(Variable("v1"), i, i + 1) : i \in {0, 1}}
    ELSE {Variable("v1")} \cup {Const(c, n) : c \in 1..MaxConst}

Unary(S) == {NegExpr(e) : e \in S} \cup {MulExpr(k, e) : k \in Coeffs, e \in S}

Exprs(n) ==
    LET L1 == Atoms(n) \cup Unary(Atoms(n))
    IN  L1 \cup {SumExpr(a, b) : a \in L1, b \in Atoms(n)}

AllExprs == Exprs(1) \cup Exprs(2)

ConstrLists(exprs) == {<<>>} \cup {<<Constr(e, e.size)>> : e \in exprs}

SymData(eq, leq, dims) ==
    [constr_map |-> [eq |-> eq, leq |-> leq], dims |-> dims, x_length |-> x_length,
     var_offsets |-> var_offsets, var_sizes |-> var_sizes]

\* the cache entry a caller hands in for the constraints eq and leq, which
\* get_sym_data returns as it is; its dims give the inequality cone `extra`
\* rows more than the constraint map has (0: dims and constraint map agree)
CachedData(eq, leq, extra) ==
    [sym_data |-> SymData(eq, leq, [f |-> gpd_A_rows(eq), l |-> gpd_A_rows(leq) + extra])]

Objectives(offsets) == {[c |-> [i \in 1..x_length |-> 1], offset |-> k] : k \in offsets}

SumDims(dims) == dims["f"] + dims["l"]

\* the values a caller gives the options, one per key
OptionValue ==
    [k \in {"use_indirect", "verbose", "equil_p", "stoch", "samples", "precond", "max_iters"} |->
        CASE k = "use_indirect" -> FALSE
          [] k = "verbose" -> TRUE
          [] k = "equil_p" -> 1
          [] k = "stoch" -> TRUE
          [] k = "samples" -> 10
          [] k = "precond" -> FALSE
          [] OTHER -> 100]

CallerMappings ==
    {[k \in K |-> OptionValue[k]] :
        K \in {S \in SUBSET (DOMAIN OptionValue) : Cardinality(S) <= MaxKeys}}

Codes == (DOMAIN SOLVER_STATUS_SCS) \cup {"Unrecognized"}

RawRef == "raw_x"

PrimalVectors == {<<1>>, <<2>>}

DualVectors(lens) == UNION {Vectors(n, {1, 2}) : n \in lens}

\* the raw outputs with these codes, times, objective values and duals
RawOutputs(codes, times, objs, duals) ==
    {[info |-> [status |-> st, solveTime |-> t1, setupTime |-> t2, cgIter |-> cg,
                pobj |-> po],
      x |-> RawRef, y |-> y] :
        st \in codes, t1 \in times, t2 \in times, cg \in times, po \in objs, y \in duals}

(***************************************************************************)
(* The arguments a caller may give each method.                            *)
(***************************************************************************)
\* what the external solver may report as a time or an iteration count
TimeVals == (0 - 1)..MaxTime

ObjVals == (0 - MaxObj)..MaxObj

SolveExprs == {Variable("v0"), SumExpr(Variable("v1"), Const(1, 2))}

\* the canonicalized constraints of the problem a cache entry is for
ConstraintsOf(cached_data) ==
    cached_data["sym_data"].constr_map[EQ] \o cached_data["sym_data"].constr_map[LEQ]

\* (objective, cached_data), the constraints being ConstraintsOf(cached_data)
ProblemArgs(exprs, offsets, extras) ==
    {[objective |-> objective, cached_data |-> CachedData(eq, leq, extra)] :
        objective \in Objectives(offsets), eq \in ConstrLists(exprs),
        leq \in ConstrLists(exprs), extra \in extras}

\* (objective, constraints, cached_data, verbose, solver_opts)
SolveArgs(mappings, exprs, offsets, extras) ==
    {[fn |-> "solve", problem |-> problem, verbose |-> verbose, solver_opts |-> mapping] :
        problem \in ProblemArgs(exprs, offsets, extras), verbose \in BOOLEAN,
        mapping \in mappings}

\* (results_dict, dims, obj_offset); offset_arg is NoArg when the call gives
\* no obj_offset; x is the content of the raw output's array x
FormatArgs(raws, fs, offset_args) ==
    {[fn |-> "format_results", results_dict |-> raw, x |-> <<1>>,
      dims |-> [f |-> f, l |-> Max2(Len(raw.y) - f, 0)], offset_arg |-> offset_arg] :
        raw \in raws, f \in fs, offset_arg \in offset_args}

DataArgs(exprs, offsets) ==
    {[fn |-> "get_problem_data", problem |-> problem] :
        problem \in ProblemArgs(exprs, offsets, {0})}

(***************************************************************************)
(* The operations.                                                         *)
(***************************************************************************)
\* the state before the call: the caller holds the arguments
InitWith(args) ==
    /\ op = "init"
    /\ call_args = args
    /\ calls = 0
    /\ solver_opts = IF args.fn = "solve" THEN args.solver_opts ELSE EmptyDict
    /\ solver_call = Absent
    /\ prev_opts = Absent
    /\ bundle = Absent
    /\ results_dict = IF args.fn = "format_results" THEN args.results_dict ELSE Absent
    /\ heap = IF args.fn = "format_results"
              THEN Put(EmptyDict, args.results_dict.x, args.x) ELSE EmptyDict
    /\ new_results = EmptyDict
    /\ ret = Absent
    /\ exc = NoExc

\* the caller calls format_results on the raw output it holds
FormatResultsCall ==
    /\ op = "init"
    /\ call_args.fn = "format_results"
    /\ LET obj_offset == IF call_args.offset_arg = NoArg THEN DefaultObjOffset
                         ELSE call_args.offset_arg[1]
           out == format_results(results_dict, call_args.dims, obj_offset)
       IN  /\ op' = "format_results"
           /\ new_results' = out.new_results
           /\ ret' = out.ret
           /\ exc' = out.exc
    /\ UNCHANGED <<call_args, calls, solver_opts, solver_call, prev_opts, bundle,
                   results_dict, heap>>

\* after format_results returned, the holder of the raw output writes into
\* its array x in place
MutateRawX ==
    /\ op \in {"format_results", "mutate_x"}
    /\ \E xv \in PrimalVectors :
        /\ xv # heap[results_dict.x]
        /\ heap' = [heap EXCEPT ![results_dict.x] = xv]
    /\ op' = "mutate_x"
    /\ UNCHANGED <<call_args, calls, solver_opts, solver_call, prev_opts, bundle,
                   results_dict, new_results, ret, exc>>

\* the caller calls get_problem_data
GetProblemDataCall ==
    /\ op = "init"
    /\ call_args.fn = "get_problem_data"
    /\ op' = "get_problem_data"
    /\ bundle' = get_problem_data(call_args.problem.objective,
                                  ConstraintsOf(call_args.problem.cached_data),
                                  call_args.problem.cached_data)
    /\ UNCHANGED <<call_args, calls, solver_opts, solver_call, prev_opts, results_dict,
                   heap, new_results, ret, exc>>

\* solve(objective, constraints, cached_data, verbose, solver_opts), the
\* parameter solver_opts being the caller's mapping object; the external
\* solver answers with any raw output whose dual has A_rows rows
SolveCall(verbose, codes, times, objs) ==
    LET problem == call_args.problem
        rows == gpd_A_rows(ConstraintsOf(problem.cached_data))
        prepared == solve_prepare(problem.objective, ConstraintsOf(problem.cached_data),
                                  problem.cached_data, verbose, solver_opts)
    IN  \E raw \in RawOutputs(codes, times, objs, {[i \in 1..rows |-> i]}) :
            LET out == solve_finish(prepared, raw)
            IN  /\ op' = "solve"
                /\ calls' = calls + 1
                /\ bundle' = bundle
                /\ solver_opts' = prepared.mapping
                /\ solver_call' = prepared.call
                /\ prev_opts' = IF calls = 0 THEN Absent ELSE solver_call.opts
                /\ results_dict' = raw
                /\ heap' = Put(EmptyDict, raw.x, <<1>>)
                /\ new_results' = out.new_results
                /\ ret' = out.ret
                /\ exc' = out.exc

\* the caller's first solve
Solve(codes, times, objs) ==
    /\ op = "init"
    /\ call_args.fn = "solve"
    /\ SolveCall(call_args.verbose, codes, times, objs)
    /\ UNCHANGED call_args

\* the caller calls solve again, passing the mapping object of the last call
SolveAgain(codes, times, objs) ==
    /\ op = "solve"
    /\ calls < MaxCalls
    /\ \E verbose \in BOOLEAN :
        /\ SolveCall(verbose, codes, times, objs)
        /\ call_args' = [call_args EXCEPT !.verbose = verbose, !.solver_opts = solver_opts]

(***************************************************************************)
(* The specifications.                                                     *)
(***************************************************************************)
\* solve, first with a mapping the caller built and then with it again
SolveCodes == {"Solved", "Infeasible", "Unrecognized"}

Init == \E args \in SolveArgs(CallerMappings, SolveExprs, {0}, {0, 1}) : InitWith(args)

Next ==
    \/ Solve(SolveCodes, {MaxTime}, {MaxObj})
    \/ SolveAgain(SolveCodes, {MaxTime}, {MaxObj})

Spec == Init /\ [][Next]_vars

\* the objective value through solve and through a direct format_results
InitValue ==
    \/ \E args \in SolveArgs({EmptyDict}, SolveExprs, ObjVals, {0}) : InitWith(args)
    \/ \E args \in FormatArgs(RawOutputs(Codes, {MaxTime}, ObjVals, {<<1>>}), {0},
                              {Arg(v) : v \in ObjVals} \cup {NoArg}) : InitWith(args)

NextValue ==
    \/ Solve(Codes, {MaxTime}, ObjVals)
    \/ FormatResultsCall

SpecValue == InitValue /\ [][NextValue]_vars

\* format_results on every raw output, and the raw output's holder afterwards
InitFormat ==
    \E args \in FormatArgs(RawOutputs(Codes, TimeVals, {MaxObj}, DualVectors(0..MaxLen)),
                           (0 - 1)..(MaxLen + 1), {NoArg, Arg(1)}) : InitWith(args)

NextFormat ==
    \/ FormatResultsCall
    \/ MutateRawX

SpecFormat == InitFormat /\ [][NextFormat]_vars

\* get_problem_data on every problem of the model
InitData == \E args \in DataArgs(AllExprs, {0}) : InitWith(args)

NextData == GetProblemDataCall

SpecData == InitData /\ [][NextData]_vars

(***************************************************************************)
(* Properties of format_results (checked under SpecFormat).                *)
(***************************************************************************)
\* format_results has returned a record to the caller
Returned == op # "init" /\ exc = NoExc /\ IsPresent(ret)

SolutionKeys == {VALUE, PRIMAL, EQ_DUAL, INEQ_DUAL}

\* C1: when the status is in the solution-present set and 0 <= dims.f <= len(y),
\* the equality dual is the first dims.f entries of y and the inequality dual
\* is the rest: the two parts do not overlap and their concatenation is y.
C1_DualSplit ==
    LET y == results_dict.y
        f == call_args.dims["f"]
    IN  (Returned /\ ret[STATUS] \in SOLUTION_PRESENT /\ 0 <= f /\ f <= Len(y)) =>
            /\ ret[EQ_DUAL] = SubSeq(y, 1, f)
            /\ ret[INEQ_DUAL] = SubSeq(y, f + 1, Len(y))
            /\ Len(ret[EQ_DUAL]) + Len(ret[INEQ_DUAL]) = Len(y)
            /\ ret[EQ_DUAL] \o ret[INEQ_DUAL] = y

\* a split strictly inside a dual vector of three distinct-position entries
C1_Witness ==
    /\ Returned
    /\ ret[STATUS] \in SOLUTION_PRESENT
    /\ results_dict.y = <<1, 2, 1>>
    /\ call_args.dims["f"] = 1
    /\ ret[EQ_DUAL] = <<1>>
    /\ ret[INEQ_DUAL] = <<2, 1>>

UnknownStatusError == KeyError

\* C4: a status code that is no key of the status table makes format_results
\* fail with UnknownStatusError; no record is returned, and nothing had been
\* written into new_results when the lookup failed.
C4_UnknownStatus ==
    (op # "init" /\ results_dict.info.status \notin DOMAIN SOLVER_STATUS_SCS) =>
        /\ exc = UnknownStatusError
        /\ ~IsPresent(ret)
        /\ new_results = EmptyDict

C4_Witness ==
    /\ op = "format_results"
    /\ results_dict.info.status = "Unrecognized"
    /\ results_dict.info.solveTime = 1
    /\ exc = KeyError
    /\ ~IsPresent(ret)

\* C7: the primal of the result is a copy of the raw output's x: after the
\* raw output's x is modified, the result's primal still holds the values x
\* had when format_results was called.
C7_PrimalCopied ==
    (op = "mutate_x" /\ Returned /\ PRIMAL \in DOMAIN ret) =>
        heap[ret[PRIMAL]] = call_args.x

(***************************************************************************)
(* The objective value (checked under SpecValue).                          *)
(***************************************************************************)
\* the offset the reported value has to include: the objective's constant
\* term in a solve, the obj_offset argument (0 when left out) in a direct call
ExpectedOffset ==
    IF call_args.fn = "solve" THEN call_args.problem.objective.offset
    ELSE IF call_args.offset_arg = NoArg THEN 0
    ELSE call_args.offset_arg[1]

\* C3: with a solution-present status the reported value is the raw pobj
\* plus the objective offset; solve passes the offset get_problem_data
\* returned for its objective, and a call without obj_offset adds 0.
C3_Value ==
    (Returned /\ ret[STATUS] \in SOLUTION_PRESENT) =>
        ret[VALUE] = results_dict.info.pobj + ExpectedOffset

\* a solve whose objective has the constant term 1
C3_Witness ==
    /\ op = "solve"
    /\ Returned
    /\ call_args.problem.objective.offset = 1
    /\ results_dict.info.pobj = 1
    /\ ret[VALUE] = 2

(***************************************************************************)
(* Properties of solve (checked under Spec).                               *)
(***************************************************************************)
\* mat_free_scs.solve was called
SolverReached == IsPresent(solver_call)

DimensionMismatchError == "DimensionMismatchError"

\* C5: A_rows is the sum of size[0]*size[1] over the equality and then the
\* inequality constraints; when it differs from sum(dims.values()) the call
\* fails with DimensionMismatchError and the external solver is not called,
\* so that A_rows = sum(dims.values()) in every solve that reaches the solver.
C5_DimensionCheck ==
    LET sym_data == call_args.problem.cached_data["sym_data"]
        A_rows == gpd_A_rows(sym_data.constr_map[EQ] \o sym_data.constr_map[LEQ])
    IN  op = "solve" =>
            /\ (A_rows # SumDims(sym_data.dims) =>
                    exc = DimensionMismatchError /\ ~SolverReached)
            /\ (SolverReached =>
                    /\ solver_call.data.A.shape[1] = A_rows
                    /\ solver_call.data.A.shape[1] = SumDims(solver_call.dims))

OptionDefault ==
    [k \in {"equil_p", "stoch", "samples", "precond"} |->
        CASE k = "equil_p" -> 2
          [] k = "stoch" -> FALSE
          [] k = "samples" -> 25
          [] OTHER -> TRUE]

ForcedKeys == {"use_indirect", "verbose"}

\* C6: the external solver receives use_indirect = true and verbose = the
\* verbose argument whatever the mapping held; equil_p, stoch, samples and
\* precond as the mapping gave them, else 2, false, 25 and true; and every
\* other key of the mapping unchanged.
C6_Options ==
    SolverReached =>
        LET o == solver_call.opts
            m == call_args.solver_opts
        IN  /\ DOMAIN o = (DOMAIN m) \cup ForcedKeys \cup (DOMAIN OptionDefault)
            /\ o["use_indirect"] = TRUE
            /\ o["verbose"] = call_args.verbose
            /\ \A k \in DOMAIN OptionDefault :
                    o[k] = IF k \in DOMAIN m THEN m[k] ELSE OptionDefault[k]
            /\ \A k \in (DOMAIN m) \ (ForcedKeys \cup DOMAIN OptionDefault) : o[k] = m[k]

\* the caller asked for the direct method and its own equil_p
C6_Witness ==
    /\ SolverReached
    /\ calls = 1
    /\ DOMAIN call_args.solver_opts = {"use_indirect", "equil_p"}
    /\ call_args.solver_opts["use_indirect"] = FALSE
    /\ solver_call.opts["use_indirect"] = TRUE
    /\ solver_call.opts["equil_p"] = 1
    /\ solver_call.opts["samples"] = 25

\* C10: solve writes into the caller's own mapping: after a solve that
\* reached the solver the caller's mapping holds use_indirect, verbose,
\* equil_p, stoch, samples and precond, use_indirect and verbose overwritten;
\* a second solve with the same mapping passes the solver the options of the
\* first, apart from verbose.
C10_CallerMapping ==
    (op = "solve" /\ SolverReached) =>
        /\ ForcedKeys \cup (DOMAIN OptionDefault) \subseteq DOMAIN solver_opts
        /\ solver_opts["use_indirect"] = TRUE
        /\ solver_opts["verbose"] = call_args.verbose
        /\ (calls >= 2 =>
                /\ DOMAIN solver_call.opts = DOMAIN prev_opts
                /\ \A k \in (DOMAIN prev_opts) \ {"verbose"} :
                        solver_call.opts[k] = prev_opts[k])

\* a second solve with the mapping of the first, the caller's equil_p carried
\* over and verbose changed
C10_Witness ==
    /\ op = "solve"
    /\ calls = 2
    /\ prev_opts["equil_p"] = 1
    /\ solver_call.opts["equil_p"] = 1
    /\ prev_opts["verbose"] = TRUE
    /\ solver_call.opts["verbose"] = FALSE
    /\ solver_opts["precond"] = TRUE

(***************************************************************************)
(* Properties of the problem data (checked under SpecData).                *)
(***************************************************************************)
TestVals == {0, 1}

HasData == op = "get_problem_data" /\ IsPresent(bundle)

A_rows_of(b) == b.data.A.shape[1]

\* C8: ATmul is the adjoint of Amul: dot(Amul(x), y) = dot(x, ATmul(y)) for
\* all x of length x_length and y of length A_rows.
C8_Adjoint ==
    HasData =>
        \A x \in Vectors(bundle.captured.x_length, TestVals),
           y \in Vectors(A_rows_of(bundle), TestVals) :
            Dot(Amul(bundle.captured, x), y) = Dot(x, ATmul(bundle.captured, y))

\* an equality of one row and an inequality of two rows with constants, on
\* which both sides of the adjoint equation are 4 at x = y = all ones
C8_Witness ==
    /\ HasData
    /\ A_rows_of(bundle) = 3
    /\ bundle.data.b # Zeros(3)
    /\ Dot(Amul(bundle.captured, <<1, 1, 1>>), <<1, 1, 1>>) = 4
    /\ Dot(<<1, 1, 1>>, ATmul(bundle.captured, <<1, 1, 1>>)) = 4

RECURSIVE HasConstant(_)
HasConstant(lin_op) ==
    \/ lin_op.type = DENSE_CONST
    \/ \E i \in 1..Len(lin_op.args) : HasConstant(lin_op.args[i])

\* C9: b is the negated value of the unpruned constraints (equalities, then
\* inequalities) at the empty assignment and Amul is built from the pruned
\* ones: no constant is left in the constraints Amul evaluates, Amul of the
\* zero vector is the zero vector, and the unpruned constraints' value at any
\* x is Amul(x) - b.
C9_ConstantsInB ==
    HasData =>
        LET f == bundle.captured
            sym_data == call_args.problem.cached_data["sym_data"]
            all_ineq == sym_data.constr_map[EQ] \o sym_data.constr_map[LEQ]
            rows == A_rows_of(bundle)
        IN  /\ \A i \in 1..Len(f.constraints) : ~HasConstant(f.constraints[i].expr)
            /\ Len(f.constraints) = Len(all_ineq)
            /\ Amul(f, Zeros(f.x_length)) = Zeros(rows)
            /\ \A x \in Vectors(f.x_length, TestVals) :
                    constr_mul(all_ineq, vec_to_dict(x, var_offsets, var_sizes), rows)
                        = VAdd(Amul(f, x), VNeg(bundle.data.b))

\* constraints with constants: b is not zero, Amul is not the zero map
C9_Witness ==
    /\ HasData
    /\ \E i \in 1..Len(ConstraintsOf(call_args.problem.cached_data)) :
            HasConstant(ConstraintsOf(call_args.problem.cached_data)[i].expr)
    /\ bundle.data.b = <<0 - 1, 0 - 1, 0 - 1>>
    /\ Amul(bundle.captured, <<1, 1, 1>>) # Zeros(3)

=============================================================================
